---------------------------- MODULE Spec2Model ----------------------------
(***************************************************************************)
(* Model of coturn_loadbalancer.py: the HealthCheck thread (hysteresis     *)
(* classification of every endpoint plus the reactive fast path), the      *)
(* LoadBalancer thread (random or metric-driven selection with its         *)
(* fallback cascade), the Fallback policies and the thread supervisor.     *)
(* The two threads share the globals turn_data and turn_server without a   *)
(* lock, so every access to a global that the other thread can change is   *)
(* a step of its own.  A list comprehension over turn_data is taken as one *)
(* read of the table.  Only the HealthCheck thread writes turn_data, so    *)
(* its own read of the table and store of turn_server in the fallback are  *)
(* one step; the LoadBalancer thread's read and store are two.             *)
(***************************************************************************)
EXTENDS Integers, Sequences, FiniteSets, TLC

\* ---------------------------------------------------------------- bounds
\* Number of endpoints in turn['addressMapping'] (configuration).
NumServers == 3
\* healthCheck['successThreshold'] (configuration).
SuccessTh == 3
\* loadBalancer['durationMinutes'] (configuration).
DurationMinutes == 2
\* Largest number of series in one metrics response (selection
\* specification).
MaxSeries == 3
\* Largest number of series in one metrics response while both threads run.
MaxLiveSeries == 1
\* Largest number of GET /coturn requests served (status API specification).
MaxRequests == 2

\* The value of dict(initial=0, ...): the fully healthy counter value.
Initial == 0
\* failed_checks=None, before the first probe of an endpoint.
NoneCount == -1
\* turn_server = None / no local final_server.
NoServer == 0

Servers == 1..NumServers
\* A label value of a series that is no endpoint of the registry.
OtherLabel == NumServers + 1

VARIABLES
    turn_data,      \* global: <<>> (None) or [server -> [failed_checks, healthy]]
    turn_server,    \* global: NoServer (None) or the active endpoint
    algorithm,      \* loadBalancer['algorithm']: "random" or "metric"
    hc_pc,          \* HealthCheck thread position
    hc_pending,     \* endpoints whose probe of this cycle has not resolved
    hc_server,      \* endpoint process_health_check is working on
    lb_pc,          \* LoadBalancer thread position
    fb_healthy,     \* random_healthy_server()'s local healthy_servers
    lb_final,       \* final_server about to be stored by the LoadBalancer
    running,        \* FALSE once check_threads has seen a dead thread
    queried,        \* a metrics query was issued in the current selection cycle
    lb_path,        \* which branch the current selection cycle took
    lb_query_result,\* what get_prometheus_metrics ended with (SpecSelection)
    lb_metrics,     \* run()'s local metrics (SpecSelection)
    lb_matches,     \* select_server()'s local all_matches (SpecSelection)
    fast_path,      \* "owed" from the moment the active endpoint turns
                    \* Unhealthy beside a Healthy one until turn_server
                    \* changes to a Healthy endpoint ("changed")
    failRun,        \* per endpoint: trailing run of failed probes (saturating)
    passRun,        \* per endpoint: trailing run of passed probes (saturating)
    web_served      \* number of GET /coturn requests served (SpecStatusApi)

vars == <<turn_data, turn_server, algorithm, hc_pc, hc_pending, hc_server,
          lb_pc, fb_healthy, lb_final, running, queried, lb_path,
          lb_query_result, lb_metrics, lb_matches, fast_path, failRun,
          passRun, web_served>>

hc_vars == <<hc_pc, hc_pending, hc_server>>
lb_vars == <<lb_pc, fb_healthy, lb_final, queried, lb_path>>
sel_vars == <<lb_query_result, lb_metrics, lb_matches>>
run_vars == <<failRun, passRun>>

\* Saturation value of the run counters: a run of RunCap probes is a run of
\* successThreshold probes or more.
RunCap == SuccessTh

Min(a, b) == IF a < b THEN a ELSE b

\* ------------------------------------------------------- health hysteresis
\* A variant that counts every failed probe, also beyond success_th.
FailedChecksUnclamped(rec, healthcheck_passed) ==
    IF rec.healthy = "None"
    THEN IF healthcheck_passed THEN 0 ELSE SuccessTh
    ELSE IF healthcheck_passed
         THEN IF rec.failed_checks = Initial
              THEN rec.failed_checks
              ELSE IF rec.healthy = "True" /\ rec.failed_checks > Initial
                   THEN Initial
                   ELSE rec.failed_checks - 1
         ELSE rec.failed_checks + 1

\* A variant in which a passed probe of a Healthy endpoint takes one failure
\* off the count instead of restarting it.
FailedChecksNoRestart(rec, healthcheck_passed) ==
    IF rec.healthy = "None"
    THEN IF healthcheck_passed THEN 0 ELSE SuccessTh
    ELSE IF healthcheck_passed
         THEN IF rec.failed_checks = Initial
              THEN rec.failed_checks
              ELSE rec.failed_checks - 1
         ELSE IF rec.failed_checks = SuccessTh
              THEN rec.failed_checks
              ELSE IF rec.healthy = "False" /\ rec.failed_checks < SuccessTh
                   THEN SuccessTh
                   ELSE rec.failed_checks + 1

\* A variant in which a failed probe of an Unhealthy endpoint puts one
\* failure back on the count instead of restarting the run of successes.
FailedChecksNoRestartOfPasses(rec, healthcheck_passed) ==
    IF rec.healthy = "None"
    THEN IF healthcheck_passed THEN 0 ELSE SuccessTh
    ELSE IF healthcheck_passed
         THEN IF rec.failed_checks = Initial
              THEN rec.failed_checks
              ELSE IF rec.healthy = "True" /\ rec.failed_checks > Initial
                   THEN Initial
                   ELSE rec.failed_checks - 1
         ELSE IF rec.failed_checks = SuccessTh
              THEN rec.failed_checks
              ELSE rec.failed_checks + 1

\* A variant without the two snap branches: every probe moves the count by
\* one step.
FailedChecksNoSnap(rec, healthcheck_passed) ==
    IF rec.healthy = "None"
    THEN IF healthcheck_passed THEN 0 ELSE SuccessTh
    ELSE IF healthcheck_passed
         THEN IF rec.failed_checks = Initial
              THEN rec.failed_checks
              ELSE rec.failed_checks - 1
         ELSE IF rec.failed_checks = SuccessTh
              THEN rec.failed_checks
              ELSE rec.failed_checks + 1

\* process_health_check, first half: the new failed_checks of a record.
FailedChecksAfter(rec, healthcheck_passed) ==
    IF rec.healthy = "None"
    THEN IF healthcheck_passed THEN 0 ELSE SuccessTh
    ELSE IF healthcheck_passed
         THEN IF rec.failed_checks = Initial
              THEN rec.failed_checks
              ELSE IF rec.healthy = "True" /\ rec.failed_checks > Initial
                   THEN Initial
                   ELSE rec.failed_checks - 1
         ELSE IF rec.failed_checks = SuccessTh
              THEN rec.failed_checks
              ELSE IF rec.healthy = "False" /\ rec.failed_checks < SuccessTh
                   THEN SuccessTh
                   ELSE rec.failed_checks + 1

\* A variant that never turns an endpoint Unhealthy.
HealthyAfterNoDown(rec) ==
    IF rec.failed_checks = 0 THEN "True" ELSE rec.healthy

\* process_health_check, second half: the new healthy of a record.
HealthyAfter(rec) ==
    IF rec.failed_checks = 0 THEN "True"
    ELSE IF rec.failed_checks = SuccessTh THEN "False"
    ELSE rec.healthy

\* [server for server, data in turn_data.items() if data['healthy'] is True]
HealthyServers(td) == {s \in DOMAIN td : td[s].healthy = "True"}

\* [0 for v in turn_data.values() if v['healthy'] is False]
UnhealthyServers(td) == {s \in DOMAIN td : td[s].healthy = "False"}

\* A variant whose range starts one too high: a single Unhealthy endpoint is
\* not taken for a partial outage.
CurrentServerDegradedFromTwo(td, active) ==
    /\ Cardinality(UnhealthyServers(td)) \in 2..(Cardinality(DOMAIN td) - 1)
    /\ active \notin HealthyServers(td)

\* check_current_server: the second and third conjunct of its condition.
CurrentServerDegraded(td, active) ==
    /\ Cardinality(UnhealthyServers(td)) \in 1..(Cardinality(DOMAIN td) - 1)
    /\ active \notin HealthyServers(td)


\* ------------------------------------------------------- metric selection
\* n samples of value v.
Samples(v, n) == [i \in 1..n |-> v]

\* The value lists a series of a metrics response may hold: one that is a
\* sample short of durationMinutes and has the lowest mean, two of exactly
\* durationMinutes samples, and a longer one whose mean is lower and whose
\* sum is higher than those of Samples(5, DurationMinutes).
SampleLists ==
    {Samples(1, DurationMinutes - 1), Samples(10, DurationMinutes),
     Samples(5, DurationMinutes), Samples(4, DurationMinutes + 1)}

\* One series: the first label value that names an endpoint (or OtherLabel
\* when no label value does) and the series' values.
Series == [server : Servers \cup {OtherLabel}, values : SampleLists]

\* response.json()['data']['result'] with at most n series.
QueryResults(n) == UNION {[1..k -> Series] : k \in 0..n}

\* What get_prometheus_metrics can end with.
QueryOutcomes(n) ==
    [kind : {"error", "not_ok", "malformed"}, result : {<<>>}]
        \cup [kind : {"list"}, result : QueryResults(n)]

\* A variant that accepts every series, whatever its labels.
MetricsRaiseNever(query_result) == FALSE

\* process_metrics raises when a series carries no endpoint label.
MetricsRaise(query_result) ==
    \E i \in DOMAIN query_result : query_result[i].server \notin Servers

\* A variant that keeps every series, however few samples it has.
EnoughSamplesAll(query_result) == DOMAIN query_result

\* Series of the response with at least durationMinutes samples.
EnoughSamples(query_result) ==
    {i \in DOMAIN query_result :
        ~ (Len(query_result[i].values) < DurationMinutes)}

\* process_metrics: values_dict, the last sufficiently sampled series of
\* each endpoint.
ProcessMetrics(query_result) ==
    LET kept == EnoughSamples(query_result)
        last(s) == CHOOSE i \in kept :
                       /\ query_result[i].server = s
                       /\ \A j \in kept : query_result[j].server = s => j <= i
    IN  [s \in {query_result[i].server : i \in kept} |->
            query_result[last(s)].values]

RECURSIVE SumSeq(_)
SumSeq(s) == IF s = <<>> THEN 0 ELSE Head(s) + SumSeq(Tail(s))

\* mean(a) <= mean(b), on the exact fractions.
MeanLeq(a, b) == SumSeq(a) * Len(b) <= SumSeq(b) * Len(a)

\* A variant that compares the sums of the samples, not their means.
SelectServerBySum(metrics) ==
    {s \in DOMAIN metrics :
        \A t \in DOMAIN metrics : SumSeq(metrics[s]) <= SumSeq(metrics[t])}

\* select_server: the endpoints choice(list(all_matches)) can return.
SelectServer(metrics) ==
    {s \in DOMAIN metrics :
        \A t \in DOMAIN metrics : MeanLeq(metrics[s], metrics[t])}

\* ------------------------------------------------------------ fallback
\* Fallback.random_server: the endpoints choice() can return.
RandomServer == Servers

\* A variant without the last resort: nothing is selected when no endpoint
\* is Healthy.
RandomHealthyServerOrNone(healthy_servers) ==
    IF healthy_servers # {} THEN healthy_servers ELSE {NoServer}

\* A variant that ignores the healthy list and chooses among all endpoints.
RandomHealthyServerAny(healthy_servers) == RandomServer

\* Fallback.random_healthy_server, given the healthy list it computed.
RandomHealthyServer(healthy_servers) ==
    IF healthy_servers # {} THEN healthy_servers ELSE RandomServer


\* fast_path after a store of new_server in turn_server.
FastPathAfterStore(new_server) ==
    IF /\ fast_path = "owed"
       /\ new_server # turn_server
       /\ new_server \in HealthyServers(turn_data)
    THEN "changed"
    ELSE fast_path

\* ------------------------------------------------------------------ Init
\* The state when both threads have been started: turn_data and
\* turn_server are None, neither run() has executed a statement.
Init ==
    /\ turn_data = <<>>
    /\ turn_server = NoServer
    /\ algorithm \in {"random", "metric"}
    /\ hc_pc = "start"
    /\ hc_pending = {}
    /\ hc_server = NoServer
    /\ lb_pc = "wait"
    /\ fb_healthy = {}
    /\ lb_final = NoServer
    /\ running = TRUE
    /\ queried = FALSE
    /\ lb_path = "none"
    /\ lb_query_result = [kind |-> "none", result |-> <<>>]
    /\ lb_metrics = <<>>
    /\ lb_matches = {}
    /\ fast_path = "no"
    /\ failRun = [s \in Servers |-> 0]
    /\ passRun = [s \in Servers |-> 0]
    /\ web_served = 0

\* ------------------------------------------------------ HealthCheck thread
\* HealthCheck.run, up to the loop: build the table, everything unknown.
HCRun ==
    /\ running /\ hc_pc = "start"
    /\ turn_data' = [s \in Servers |->
                        [failed_checks |-> NoneCount, healthy |-> "None"]]
    /\ hc_pc' = "loop"
    /\ UNCHANGED <<turn_server, algorithm, hc_pending, hc_server, lb_vars,
                   running, sel_vars, fast_path, run_vars, web_served>>

\* One iteration of the loop starts: main_tcp gathers one probe per endpoint.
HCStartCycle ==
    /\ running /\ hc_pc = "loop"
    /\ hc_pending' = Servers
    /\ hc_pc' = "gather"
    /\ UNCHANGED <<turn_data, turn_server, algorithm, hc_server, lb_vars,
                   running, sel_vars, fast_path, run_vars, web_served>>

\* Where the HealthCheck thread goes when process_health_check returns.
HCAfterServer == IF hc_pending = {} THEN "loop" ELSE "gather"

\* The probe of one endpoint resolves and process_health_check updates
\* failed_checks.
HCProbeStep(server, healthcheck_passed) ==
    /\ running /\ hc_pc = "gather"
    /\ server \in hc_pending
    /\ turn_data' = [turn_data EXCEPT ![server].failed_checks =
                        FailedChecksAfter(turn_data[server], healthcheck_passed)]
    /\ hc_pending' = hc_pending \ {server}
    /\ hc_server' = server
    /\ hc_pc' = "status"
    /\ fast_path' = "no"
    /\ UNCHANGED <<turn_server, algorithm, lb_vars, running, sel_vars,
                   web_served>>

HCProbe(server, healthcheck_passed) ==
    /\ HCProbeStep(server, healthcheck_passed)
    /\ UNCHANGED run_vars

\* The same step, recording the endpoint's trailing runs of probe results.
HCProbeRuns(server, healthcheck_passed) ==
    /\ HCProbeStep(server, healthcheck_passed)
    /\ failRun' = [failRun EXCEPT ![server] =
                      IF healthcheck_passed THEN 0 ELSE Min(@ + 1, RunCap)]
    /\ passRun' = [passRun EXCEPT ![server] =
                      IF healthcheck_passed THEN Min(@ + 1, RunCap) ELSE 0]

\* process_health_check updates healthy.
HCStatus ==
    /\ running /\ hc_pc = "status"
    /\ turn_data' = [turn_data EXCEPT ![hc_server].healthy =
                        HealthyAfter(turn_data[hc_server])]
    /\ hc_pc' = "check"
    /\ fast_path' =
          IF /\ turn_data[hc_server].healthy = "True"
             /\ turn_data'[hc_server].healthy = "False"
             /\ turn_server = hc_server
             /\ HealthyServers(turn_data') # {}
          THEN "owed"
          ELSE fast_path
    /\ UNCHANGED <<turn_server, algorithm, hc_pending, hc_server, lb_vars,
                   running, sel_vars, run_vars, web_served>>

\* check_current_server reads turn_server for the first conjunct.
HCCheckSet ==
    /\ running /\ hc_pc = "check"
    /\ IF turn_server # NoServer
       THEN hc_pc' = "check_degraded" /\ UNCHANGED hc_server
       ELSE hc_pc' = HCAfterServer /\ hc_server' = NoServer
    /\ UNCHANGED <<turn_data, turn_server, algorithm, hc_pending, lb_vars,
                   running, sel_vars, fast_path, run_vars, web_served>>

\* check_current_server evaluates the rest of its condition.
HCCheckDegraded ==
    /\ running /\ hc_pc = "check_degraded"
    /\ IF CurrentServerDegraded(turn_data, turn_server)
       THEN hc_pc' = "fallback" /\ UNCHANGED hc_server
       ELSE hc_pc' = HCAfterServer /\ hc_server' = NoServer
    /\ UNCHANGED <<turn_data, turn_server, algorithm, hc_pending, lb_vars,
                   running, sel_vars, fast_path, run_vars, web_served>>

\* check_current_server calls Fallback().random_healthy_server().
HCFallback ==
    /\ running /\ hc_pc = "fallback"
    /\ turn_server' \in RandomHealthyServer(HealthyServers(turn_data))
    /\ hc_pc' = HCAfterServer
    /\ hc_server' = NoServer
    /\ fast_path' = FastPathAfterStore(turn_server')
    /\ UNCHANGED <<turn_data, algorithm, hc_pending, lb_vars, running,
                   sel_vars, run_vars, web_served>>

\* ----------------------------------------------------- LoadBalancer thread
\* A variant that waits for the table only, not for the first health pass.
LBWaitForTableOnly ==
    /\ running /\ lb_pc = "wait"
    /\ IF turn_data = <<>>
       THEN lb_pc' = "wait"
       ELSE lb_pc' = "select"
    /\ UNCHANGED <<turn_data, turn_server, algorithm, hc_vars, fb_healthy,
                   lb_final, queried, lb_path, running, sel_vars, fast_path,
                   run_vars, web_served>>

\* LoadBalancer.run, the inner loop: wait for the first full health pass.
LBWait ==
    /\ running /\ lb_pc = "wait"
    /\ IF turn_data = <<>> \/ \E s \in DOMAIN turn_data : turn_data[s].healthy = "None"
       THEN lb_pc' = "wait"
       ELSE lb_pc' = "select"
    /\ UNCHANGED <<turn_data, turn_server, algorithm, hc_vars, fb_healthy,
                   lb_final, queried, lb_path, running, sel_vars, fast_path,
                   run_vars, web_served>>

\* LoadBalancer.run, random mode: Fallback().random_healthy_server() is called.
LBSelectRandom ==
    /\ running /\ lb_pc = "select"
    /\ algorithm = "random"
    /\ lb_pc' = "rh_read"
    /\ lb_path' = "random"
    /\ UNCHANGED <<turn_data, turn_server, algorithm, hc_vars, fb_healthy,
                   lb_final, queried, running, sel_vars, fast_path, run_vars,
                   web_served>>

\* A variant without the single-survivor branch: the metrics are queried
\* whenever an endpoint is Healthy.
LBSelectMetricAlwaysQuery ==
    /\ running /\ lb_pc = "select"
    /\ algorithm # "random"
    /\ LET healthy_servers == HealthyServers(turn_data) IN
       IF healthy_servers = {}
       THEN /\ lb_final' \in RandomServer
            /\ lb_pc' = "write"
            /\ lb_path' = "all_unhealthy"
            /\ UNCHANGED queried
       ELSE /\ lb_pc' = "query"
            /\ queried' = TRUE
            /\ lb_path' = "query"
            /\ UNCHANGED lb_final
    /\ UNCHANGED <<turn_data, turn_server, algorithm, hc_vars, fb_healthy,
                   running, sel_vars, fast_path, run_vars, web_served>>

\* LoadBalancer.run, metric mode: compute healthy_servers and branch on it.
LBSelectMetric ==
    /\ running /\ lb_pc = "select"
    /\ algorithm # "random"
    /\ LET healthy_servers == HealthyServers(turn_data) IN
       IF healthy_servers = {}
       THEN /\ lb_final' \in RandomServer
            /\ lb_pc' = "write"
            /\ lb_path' = "all_unhealthy"
            /\ UNCHANGED queried
       ELSE IF Cardinality(healthy_servers) = 1
       THEN /\ lb_final' \in healthy_servers
            /\ lb_pc' = "write"
            /\ lb_path' = "single"
            /\ UNCHANGED queried
       ELSE /\ lb_pc' = "query"
            /\ queried' = TRUE
            /\ lb_path' = "query"
            /\ UNCHANGED lb_final
    /\ UNCHANGED <<turn_data, turn_server, algorithm, hc_vars, fb_healthy,
                   running, sel_vars, fast_path, run_vars, web_served>>

\* A variant without the isinstance test: whatever the query returned is
\* handed on as if it were a list of series.
QueryVerdictNoTypeTest(outcome) ==
    IF outcome.kind # "list" THEN "raise"
    ELSE IF outcome.result = <<>> THEN "no_hits"
    ELSE IF MetricsRaise(outcome.result) THEN "raise"
    ELSE IF DOMAIN ProcessMetrics(outcome.result) = {} THEN "not_enough"
    ELSE "metrics"

\* What LoadBalancer.run does with the value get_prometheus_metrics returned
\* (or the exception it let through).
QueryVerdict(outcome) ==
    IF outcome.kind = "malformed" THEN "raise"
    ELSE IF outcome.kind # "list" THEN "query_failed"
    ELSE IF outcome.result = <<>> THEN "no_hits"
    ELSE IF MetricsRaise(outcome.result) THEN "raise"
    ELSE IF DOMAIN ProcessMetrics(outcome.result) = {} THEN "not_enough"
    ELSE "metrics"

\* The outcomes a metrics query can have while both threads run.
LiveOutcomes == QueryOutcomes(MaxLiveSeries)

\* get_prometheus_metrics returns and run() handles the outcome, up to the
\* call of the fallback or the store of select_server.
LBQueryReturn(outcome) ==
    /\ running /\ lb_pc = "query"
    /\ LET verdict == QueryVerdict(outcome) IN
       IF verdict = "raise"
       THEN /\ lb_pc' = "crashed"
            /\ lb_path' = verdict
            /\ UNCHANGED <<turn_server, queried>>
       ELSE IF verdict = "metrics"
       THEN /\ turn_server' \in SelectServer(ProcessMetrics(outcome.result))
            /\ lb_pc' = "wait"
            /\ lb_path' = "none"
            /\ queried' = FALSE
       ELSE /\ lb_pc' = "rh_read"
            /\ lb_path' = verdict
            /\ UNCHANGED <<turn_server, queried>>
    /\ fast_path' = FastPathAfterStore(turn_server')
    /\ UNCHANGED <<turn_data, algorithm, hc_vars, fb_healthy, lb_final,
                   running, sel_vars, run_vars, web_served>>

\* Fallback.random_healthy_server in the LoadBalancer thread: compute
\* healthy_servers and choose final_server.
LBFallbackRead ==
    /\ running /\ lb_pc = "rh_read"
    /\ fb_healthy' = HealthyServers(turn_data)
    /\ lb_final' \in RandomHealthyServer(fb_healthy')
    /\ lb_pc' = "write"
    /\ lb_path' = "fallback"
    /\ UNCHANGED <<turn_data, turn_server, algorithm, hc_vars, queried,
                   running, sel_vars, fast_path, run_vars, web_served>>

\* The LoadBalancer thread stores final_server in turn_server; the cycle is
\* over and, after its sleep, the outer loop starts again.
LBWrite ==
    /\ running /\ lb_pc = "write"
    /\ turn_server' = lb_final
    /\ lb_pc' = "wait"
    /\ lb_final' = NoServer
    /\ fb_healthy' = {}
    /\ queried' = FALSE
    /\ lb_path' = "none"
    /\ fast_path' = FastPathAfterStore(turn_server')
    /\ UNCHANGED <<turn_data, algorithm, hc_vars, running, sel_vars, run_vars,
                   web_served>>

\* check_threads sees that the LoadBalancer thread is dead and the process
\* exits, taking the daemon threads with it.
CheckThreads ==
    /\ running /\ lb_pc = "crashed"
    /\ running' = FALSE
    /\ UNCHANGED <<turn_data, turn_server, algorithm, hc_vars, lb_vars,
                   sel_vars, fast_path, run_vars, web_served>>

Next ==
    \/ HCRun
    \/ HCStartCycle
    \/ \E s \in Servers, passed \in BOOLEAN : HCProbe(s, passed)
    \/ HCStatus
    \/ HCCheckSet
    \/ HCCheckDegraded
    \/ HCFallback
    \/ LBWait
    \/ LBSelectRandom
    \/ LBSelectMetric
    \/ \E outcome \in LiveOutcomes : LBQueryReturn(outcome)
    \/ LBFallbackRead
    \/ LBWrite
    \/ CheckThreads

Spec == Init /\ [][Next]_vars

\* -------------------------------------------------------------- SpecFair
\* The steps of the HealthCheck thread.
HCNext ==
    \/ HCRun
    \/ HCStartCycle
    \/ \E s \in Servers, passed \in BOOLEAN : HCProbe(s, passed)
    \/ HCStatus
    \/ HCCheckSet
    \/ HCCheckDegraded
    \/ HCFallback

\* The steps of the LoadBalancer thread.
LBNext ==
    \/ LBWait
    \/ LBSelectRandom
    \/ LBSelectMetric
    \/ \E outcome \in LiveOutcomes : LBQueryReturn(outcome)
    \/ LBFallbackRead
    \/ LBWrite

\* Both threads and the supervisor keep being scheduled; every probe
\* resolves within timeoutSeconds and every query within its timeout, so a
\* thread that can take a step eventually takes one.
SpecFair ==
    /\ Init
    /\ [][Next]_vars
    /\ WF_vars(HCNext)
    /\ WF_vars(LBNext)
    /\ WF_vars(CheckThreads)

\* ------------------------------------------------------------ SpecHealth
\* The HealthCheck thread on its own, before the LoadBalancer thread has made
\* its first selection: every sequence of probe results of every endpoint,
\* with the trailing runs recorded.
NextHealth ==
    \/ HCRun
    \/ HCStartCycle
    \/ \E s \in Servers, passed \in BOOLEAN : HCProbeRuns(s, passed)
    \/ HCStatus
    \/ HCCheckSet

\* The LoadBalancer thread does not run here, so one algorithm is enough.
InitHealth == Init /\ algorithm = "random"

SpecHealth == InitHealth /\ [][NextHealth]_vars

\* --------------------------------------------------------- SpecStatusApi
\* web_api.get_turn_server: the body of the response to GET /coturn, built
\* from the two globals as they are when the request is served.
GetTurnServerResponse ==
    [turn_data |-> turn_data, turn_server |-> turn_server]

\* web_api.get_api_health: the health field of the response to
\* GET /p/health_check.
GetApiHealth ==
    IF turn_server # NoServer THEN "healthy" ELSE "unhealthy"

\* The WebApi thread serves one GET /coturn request.
WebGetTurnServer ==
    /\ running
    /\ web_served < MaxRequests
    /\ web_served' = web_served + 1
    /\ UNCHANGED <<turn_data, turn_server, algorithm, hc_vars, lb_vars,
                   running, sel_vars, fast_path, failRun, passRun>>

\* The HealthCheck thread and the status API, which reads the table at any
\* point of the HealthCheck thread's progress.
NextStatusApi ==
    \/ NextHealth
    \/ WebGetTurnServer

SpecStatusApi == InitHealth /\ [][NextStatusApi]_vars

\* --------------------------------------------------------- SpecSelection
\* The LoadBalancer thread on its own from the moment a metrics query ends
\* until the cycle's store in turn_server, for every outcome of the query.
\* The first endpoint has turned Unhealthy since the healthy list of the
\* query was computed; the previous selection is unset or that endpoint.
InitSelection ==
    /\ turn_data = [s \in Servers |->
                      IF s = 1
                      THEN [failed_checks |-> SuccessTh, healthy |-> "False"]
                      ELSE [failed_checks |-> Initial, healthy |-> "True"]]
    /\ turn_server \in {NoServer, 1}
    /\ algorithm = "metric"
    /\ hc_pc = "loop"
    /\ hc_pending = {}
    /\ hc_server = NoServer
    /\ lb_pc = "returned"
    /\ fb_healthy = {}
    /\ lb_final = NoServer
    /\ running = TRUE
    /\ queried = TRUE
    /\ lb_path = "query"
    /\ lb_query_result \in QueryOutcomes(MaxSeries)
    /\ lb_metrics = <<>>
    /\ lb_matches = {}
    /\ fast_path = "no"
    /\ failRun = [s \in Servers |-> 0]
    /\ passRun = [s \in Servers |-> 0]
    /\ web_served = 0

\* LoadBalancer.run handles what get_prometheus_metrics ended with, up to
\* the call of select_server or of the fallback.
LBHandleResult ==
    /\ running /\ lb_pc = "returned"
    /\ LET verdict == QueryVerdict(lb_query_result) IN
       IF verdict = "raise"
       THEN /\ lb_pc' = "crashed"
            /\ lb_path' = verdict
            /\ UNCHANGED lb_metrics
       ELSE IF verdict = "metrics"
       THEN /\ lb_metrics' = ProcessMetrics(lb_query_result.result)
            /\ lb_pc' = "select_server"
            /\ lb_path' = verdict
       ELSE /\ lb_pc' = "rh_read"
            /\ lb_path' = verdict
            /\ UNCHANGED lb_metrics
    /\ UNCHANGED <<turn_data, turn_server, algorithm, hc_vars, fb_healthy,
                   lb_final, queried, running, lb_query_result, lb_matches,
                   fast_path, run_vars, web_served>>

\* select_server: all_matches, the choice and the store in turn_server.
LBSelectServer ==
    /\ running /\ lb_pc = "select_server"
    /\ lb_matches' = SelectServer(lb_metrics)
    /\ turn_server' \in lb_matches'
    /\ lb_pc' = "wait"
    /\ lb_path' = "none"
    /\ queried' = FALSE
    /\ fast_path' = FastPathAfterStore(turn_server')
    /\ UNCHANGED <<turn_data, algorithm, hc_vars, fb_healthy, lb_final,
                   running, lb_query_result, lb_metrics, run_vars, web_served>>

NextSelection ==
    \/ LBHandleResult
    \/ LBSelectServer
    \/ LBFallbackRead
    \/ LBWrite

SpecSelection == InitSelection /\ [][NextSelection]_vars

\* ============================================================ properties
\* The endpoint has had at least one probe processed.
Probed(s) == failRun[s] + passRun[s] > 0

\* C1: once an endpoint's first probe has been processed, its failed_checks
\* is an integer of the closed range [0, successThreshold], whatever the
\* sequence of probe results.
C1_FailedChecksInRange ==
    \A s \in DOMAIN turn_data :
        Probed(s) => turn_data[s].failed_checks \in 0..SuccessTh

\* An endpoint has failed successThreshold probes or more in a row and its
\* counter rests at the threshold.
C1_Witness ==
    \E s \in DOMAIN turn_data :
        /\ failRun[s] = RunCap
        /\ turn_data[s].failed_checks = SuccessTh

\* C2: when process_health_check sets the status of an endpoint that was
\* Healthy, the endpoint becomes Unhealthy if and only if the probe just
\* processed completed a run of exactly successThreshold consecutive failed
\* probes; a passed probe in between restarts the run.
C2_UnhealthyAtThresholdFailures ==
    [][\A s \in Servers :
          (/\ hc_pc = "status"
           /\ hc_pc' = "check"
           /\ hc_server = s
           /\ turn_data[s].healthy = "True")
          => ((turn_data'[s].healthy = "False") <=> (failRun[s] = RunCap))]_vars

\* A Healthy endpoint whose successThreshold-th consecutive failure has just
\* been counted: the status update that follows makes it Unhealthy.
C2_Witness ==
    /\ hc_pc = "status"
    /\ turn_data[hc_server].healthy = "True"
    /\ failRun[hc_server] = RunCap

\* C3: when process_health_check sets the status of an endpoint that was
\* Unhealthy, the endpoint becomes Healthy if and only if the probe just
\* processed completed a run of exactly successThreshold consecutive passed
\* probes; a failed probe in between restarts the run.
C3_HealthyAtThresholdPasses ==
    [][\A s \in Servers :
          (/\ hc_pc = "status"
           /\ hc_pc' = "check"
           /\ hc_server = s
           /\ turn_data[s].healthy = "False")
          => ((turn_data'[s].healthy = "True") <=> (passRun[s] = RunCap))]_vars

\* An Unhealthy endpoint whose successThreshold-th consecutive success has
\* just been counted: the status update that follows makes it Healthy.
C3_Witness ==
    /\ hc_pc = "status"
    /\ turn_data[hc_server].healthy = "False"
    /\ passRun[hc_server] = RunCap

\* mean(a) < mean(b), on the exact fractions.
MeanLess(a, b) == SumSeq(a) * Len(b) < SumSeq(b) * Len(a)

\* select_server has run in this cycle.
Selected == lb_matches # {}

\* C6: in metric-driven mode, once select_server has run on a non-empty set
\* of sufficiently sampled series, turn_server is an endpoint of that set, no
\* endpoint of the set has a strictly lower mean, and the list the random
\* choice is made from holds every endpoint whose mean is the minimum.
C6_MinimumMeanSelected ==
    Selected =>
        /\ turn_server \in DOMAIN lb_metrics
        /\ \A t \in DOMAIN lb_metrics :
              ~ MeanLess(lb_metrics[t], lb_metrics[turn_server])
        /\ lb_matches =
              {s \in DOMAIN lb_metrics :
                  \A t \in DOMAIN lb_metrics :
                      ~ MeanLess(lb_metrics[t], lb_metrics[s])}

\* Means 10, 5 and 5: the third endpoint was chosen, the second could have
\* been, the first could not.
C6_Witness ==
    /\ Selected
    /\ DOMAIN lb_metrics = {1, 2, 3}
    /\ lb_metrics[1] = Samples(10, DurationMinutes)
    /\ lb_metrics[2] = Samples(5, DurationMinutes)
    /\ lb_metrics[3] = Samples(5, DurationMinutes)
    /\ lb_matches = {2, 3}
    /\ turn_server = 3

\* The series of the response, in the state its handling has started from.
Response == lb_query_result.result

\* Endpoints that have a series in the response, each with fewer samples than
\* durationMinutes.
OnlyShortSeries ==
    {s \in Servers :
        /\ \E i \in DOMAIN Response : Response[i].server = s
        /\ \A i \in DOMAIN Response :
              Response[i].server = s => Len(Response[i].values) < DurationMinutes}

\* Every series of a response that process_metrics accepts is short.
AllSeriesShort ==
    /\ lb_query_result.kind = "list"
    /\ Response # <<>>
    /\ \A i \in DOMAIN Response :
          /\ Response[i].server \in Servers
          /\ Len(Response[i].values) < DurationMinutes

\* C7: an endpoint whose series all have fewer samples than durationMinutes
\* takes no part in the comparison and is not chosen by select_server, and
\* every list that is compared is a series of the response with at least
\* durationMinutes samples; when every series is short, select_server is not
\* called and the cycle stores a random healthy endpoint.
C7_ShortSeriesExcluded ==
    /\ \A s \in DOMAIN lb_metrics :
          /\ s \notin OnlyShortSeries
          /\ \E i \in DOMAIN Response :
                /\ Response[i].server = s
                /\ Response[i].values = lb_metrics[s]
                /\ Len(Response[i].values) >= DurationMinutes
    /\ Selected => turn_server \notin OnlyShortSeries
    /\ AllSeriesShort =>
          /\ lb_pc \in {"returned", "rh_read", "write", "wait"}
          /\ lb_pc = "write" => lb_final \in HealthyServers(turn_data)
          /\ lb_pc = "wait" => turn_server \in HealthyServers(turn_data)

\* An endpoint's only series is a sample short and has the lowest mean of the
\* response; another endpoint was chosen.
C7_Witness ==
    /\ Selected
    /\ \E s \in OnlyShortSeries :
          /\ s # turn_server
          /\ \E i \in DOMAIN Response :
                /\ Response[i].server = s
                /\ MeanLess(Response[i].values, lb_metrics[turn_server])

\* The query ended with a transport error, a non-success response or an
\* empty result list.
QueryFailedOrEmpty ==
    \/ lb_query_result.kind \in {"error", "not_ok"}
    \/ lb_query_result.kind = "list" /\ lb_query_result.result = <<>>

\* C8: after a metrics query that failed with a transport error or a
\* non-success response, or that returned an empty list, the LoadBalancer
\* thread does not crash and does not call select_server: it calls the
\* random-healthy fallback and the cycle ends with a Healthy endpoint stored
\* in turn_server, whatever turn_server held before.
C8_FailedQueryFallsBack ==
    QueryFailedOrEmpty =>
        /\ lb_pc \in {"returned", "rh_read", "write", "wait"}
        /\ lb_pc = "write" => lb_final \in HealthyServers(turn_data)
        /\ lb_pc = "wait" => turn_server \in HealthyServers(turn_data)

\* The query failed while the previous selection was the endpoint that has
\* turned Unhealthy; the cycle has ended with another, Healthy endpoint.
C8_Witness ==
    /\ lb_query_result.kind = "error"
    /\ lb_pc = "wait"
    /\ turn_server \in HealthyServers(turn_data)

\* process_health_check is not running: the HealthCheck thread is between
\* two calls of it or between two cycles.
HCBetweenCalls == hc_pc \in {"gather", "loop"}

\* C4: when the status update of process_health_check turns the active
\* endpoint Unhealthy while another endpoint is Healthy, turn_server has
\* changed to an endpoint that was Healthy at the time of the change by the
\* time that call of process_health_check returns, hence before the end of
\* the HealthCheck cycle, whatever the LoadBalancer thread does in between.
C4_ActiveReplacedWithinCycle ==
    HCBetweenCalls => fast_path # "owed"

\* The active endpoint turned Unhealthy beside a Healthy one, turn_server
\* changed, and it holds a Healthy endpoint as the call has returned.
C4_Witness ==
    /\ HCBetweenCalls
    /\ fast_path = "changed"
    /\ turn_server \in HealthyServers(turn_data)
    /\ UnhealthyServers(turn_data) # {}

\* C5: a selection cycle that finds every endpoint Unhealthy (the metric
\* branch on an empty healthy list, or the random-healthy fallback on an
\* empty healthy list) goes on to store a member of the registry: it chooses
\* final_server among the endpoints and the store leaves turn_server set.
C5_TotalOutageStillSelects ==
    [][/\ (/\ lb_pc \in {"select", "rh_read"}
           /\ lb_pc' # lb_pc
           /\ HealthyServers(turn_data) = {})
          => (lb_pc' \in {"write", "rh_read"} /\
              (lb_pc' = "write" => lb_final' \in Servers))
       /\ (lb_pc = "write" /\ lb_pc' # lb_pc)
          => (lb_pc' = "wait" /\ turn_server' = lb_final /\ turn_server' \in Servers)
      ]_vars

\* No endpoint is Healthy, nothing has been selected yet, and the cycle is
\* about to store the endpoint it chose.
C5_Witness ==
    /\ lb_pc = "write"
    /\ lb_final \in Servers
    /\ turn_server = NoServer
    /\ HealthyServers(turn_data) = {}
    /\ fb_healthy = {}

\* C9: in metric mode, a cycle that finds exactly one Healthy endpoint when
\* it computes healthy_servers chooses that endpoint without issuing a
\* metrics query, and its store puts that endpoint in turn_server with no
\* query issued in the cycle.
C9_SingleSurvivorNoQuery ==
    [][/\ (/\ lb_pc = "select"
           /\ lb_pc' # lb_pc
           /\ algorithm = "metric"
           /\ Cardinality(HealthyServers(turn_data)) = 1)
          => (/\ lb_pc' = "write"
              /\ lb_path' = "single"
              /\ HealthyServers(turn_data) = {lb_final'}
              /\ ~ queried')
       /\ (lb_pc = "write" /\ lb_path = "single" /\ lb_pc' # lb_pc)
          => (/\ ~ queried
              /\ lb_pc' = "wait"
              /\ turn_server' = lb_final)
      ]_vars

\* The cycle found one Healthy endpoint and is about to store it; no query
\* was issued.
C9_Witness ==
    /\ lb_pc = "write"
    /\ lb_path = "single"
    /\ ~ queried
    /\ HealthyServers(turn_data) = {lb_final}
    /\ turn_server # lb_final

\* C10: whenever turn_server is set, the health table exists and no
\* endpoint's status is Unknown.
C10_NoSelectionBeforeFirstPass ==
    turn_server # NoServer =>
        /\ turn_data # <<>>
        /\ \A s \in DOMAIN turn_data : turn_data[s].healthy # "None"

\* A selection has been stored by the LoadBalancer thread, whose cycle is
\* over, and every endpoint has a status.
C10_Witness ==
    /\ turn_server # NoServer
    /\ lb_pc = "wait"
    /\ turn_data # <<>>
    /\ \A s \in DOMAIN turn_data : turn_data[s].healthy \in {"True", "False"}

\* C11: whenever random_healthy_server runs (random mode, the fallback of
\* metric mode, or the fast path of the HealthCheck thread), the endpoint it
\* stores in turn_server is one of the endpoints that were Healthy when it
\* read turn_data, if there was one, and otherwise some endpoint of the
\* registry.
C11_RandomHealthyFromSnapshot ==
    [][/\ (lb_pc = "rh_read" /\ lb_pc' # lb_pc)
          => /\ lb_pc' = "write"
             /\ fb_healthy' = {s \in Servers : turn_data[s].healthy = "True"}
             /\ fb_healthy' # {} => lb_final' \in fb_healthy'
             /\ fb_healthy' = {} => lb_final' \in Servers
       /\ (lb_pc = "write" /\ lb_path = "fallback" /\ lb_pc' # lb_pc)
          => /\ turn_server' = lb_final
             /\ fb_healthy # {} => turn_server' \in fb_healthy
             /\ fb_healthy = {} => turn_server' \in Servers
       /\ (hc_pc = "fallback" /\ hc_pc' # hc_pc)
          => /\ \E s \in Servers : turn_data[s].healthy = "True"
             /\ turn_data[turn_server'].healthy = "True"
      ]_vars

\* The LoadBalancer thread is about to store an endpoint it chose from a
\* non-empty healthy list, and the endpoint has turned Unhealthy since the
\* list was computed.
C11_Witness ==
    /\ lb_pc = "write"
    /\ lb_path = "fallback"
    /\ lb_final \in fb_healthy
    /\ turn_data[lb_final].healthy = "False"

\* The endpoint's status is determined and process_health_check is not
\* between its update of the endpoint's failed_checks and that of its healthy.
DeterminedAtRest(s) ==
    /\ turn_data[s].healthy # "None"
    /\ ~ (hc_pc = "status" /\ hc_server = s)

\* C12, as stated: at rest, failed_checks is 0 if and only if the endpoint is
\* Healthy, and it is successThreshold if and only if the endpoint is
\* Unhealthy.
C12_CounterIffStatus ==
    \A s \in DOMAIN turn_data :
        DeterminedAtRest(s) =>
            /\ (turn_data[s].failed_checks = 0) <=> (turn_data[s].healthy = "True")
            /\ (turn_data[s].failed_checks = SuccessTh)
                   <=> (turn_data[s].healthy = "False")

\* C12, amended: at rest, failed_checks 0 implies Healthy and failed_checks
\* successThreshold implies Unhealthy; a Healthy endpoint's counter is below
\* successThreshold and an Unhealthy endpoint's counter is above 0.
C12_BoundaryImpliesStatus ==
    \A s \in DOMAIN turn_data :
        DeterminedAtRest(s) =>
            /\ turn_data[s].failed_checks = 0 => turn_data[s].healthy = "True"
            /\ turn_data[s].failed_checks = SuccessTh
                   => turn_data[s].healthy = "False"
            /\ turn_data[s].healthy = "True"
                   => turn_data[s].failed_checks \in 0..(SuccessTh - 1)
            /\ turn_data[s].healthy = "False"
                   => turn_data[s].failed_checks \in 1..SuccessTh

\* At rest in the damping zone: a Healthy endpoint that has failed fewer
\* than successThreshold probes in a row, and an Unhealthy one whose counter
\* has come down without reaching 0.
C12_Witness ==
    \E s, u \in DOMAIN turn_data :
        /\ DeterminedAtRest(s) /\ DeterminedAtRest(u)
        /\ turn_data[s].healthy = "True"
        /\ turn_data[s].failed_checks \in 1..(SuccessTh - 1)
        /\ failRun[s] = turn_data[s].failed_checks
        /\ turn_data[u].healthy = "False"
        /\ turn_data[u].failed_checks \in 1..(SuccessTh - 1)

\* The record's failed_checks is at a boundary value and its healthy is the
\* opposite status.
HalfUpdated(rec) ==
    \/ rec.failed_checks = 0 /\ rec.healthy = "False"
    \/ rec.failed_checks = SuccessTh /\ rec.healthy = "True"

\* C13: no response of the status API carries an endpoint record whose
\* failed_checks reflects the probe just processed while its healthy does
\* not (failed_checks 0 with Unhealthy, or successThreshold with Healthy).
C13_ReadersSeeWholeRecords ==
    [][web_served' # web_served =>
          \A s \in DOMAIN GetTurnServerResponse.turn_data :
              ~ HalfUpdated(GetTurnServerResponse.turn_data[s])]_vars

\* The endpoint the LoadBalancer thread is about to store was chosen from a
\* non-empty list of endpoints that were Healthy when the list was computed.
ChosenFromHealthyList ==
    \/ lb_path = "single"
    \/ lb_path = "fallback" /\ lb_final \in fb_healthy

\* C14: when the LoadBalancer thread stores an endpoint it chose from a
\* healthy list (the single-survivor branch or random_healthy_server) and an
\* endpoint is Healthy at the store, the endpoint stored is Healthy at the
\* store: a choice made from an earlier reading of the table is not
\* published after the chosen endpoint has turned Unhealthy.
C14_StoreIsHealthyAtStore ==
    [][(/\ lb_pc = "write"
        /\ lb_pc' # lb_pc
        /\ ChosenFromHealthyList
        /\ HealthyServers(turn_data) # {})
       => turn_server' \in HealthyServers(turn_data)]_vars

\* C15: after a metrics query whose success response has a body that cannot
\* be parsed or lacks data.result, the LoadBalancer thread does not crash: it
\* calls the random-healthy fallback and the cycle ends with a Healthy
\* endpoint stored in turn_server.
C15_MalformedBodyFallsBack ==
    lb_query_result.kind = "malformed" =>
        /\ lb_pc \in {"returned", "rh_read", "write", "wait"}
        /\ lb_pc = "write" => lb_final \in HealthyServers(turn_data)
        /\ lb_pc = "wait" => turn_server \in HealthyServers(turn_data)

\* The response is a list with a series none of whose label values is an
\* endpoint of the registry.
UnrecognizedLabel ==
    /\ lb_query_result.kind = "list"
    /\ \E i \in DOMAIN Response : Response[i].server = OtherLabel

\* C16: after a metrics result with a series that names no endpoint of the
\* registry, the LoadBalancer thread does not crash: it calls the
\* random-healthy fallback, the cycle ends with a Healthy endpoint stored in
\* turn_server and the loop goes on to its next cycle.
C16_UnrecognizedLabelFallsBack ==
    UnrecognizedLabel =>
        /\ lb_pc \in {"returned", "rh_read", "write", "wait"}
        /\ lb_pc = "write" => lb_final \in HealthyServers(turn_data)
        /\ lb_pc = "wait" => turn_server \in HealthyServers(turn_data)

\* The probe of endpoint s resolves and its failed_checks is updated.
ProbeStepOf(s) ==
    /\ hc_pc = "gather"
    /\ hc_pc' = "status"
    /\ hc_server' = s

\* The probe processed by the step passed.
ProbePassed(s) == passRun'[s] > 0

\* The branch of line 94 is the one the update executes: the probe passed,
\* the endpoint is Healthy and its failed_checks is above initial.
SnapToInitial(s) ==
    /\ ProbePassed(s)
    /\ turn_data[s].healthy = "True"
    /\ turn_data[s].failed_checks > Initial

\* The branch of line 104 is the one the update executes: the probe failed,
\* the endpoint is Unhealthy and its failed_checks is below success_th.
SnapToThreshold(s) ==
    /\ ~ ProbePassed(s)
    /\ turn_data[s].healthy = "False"
    /\ turn_data[s].failed_checks < SuccessTh

\* C17, as stated: whatever the sequence of probe results, no update of
\* failed_checks executes either of the two snap branches.
C17_SnapNeverTaken ==
    [][\A s \in Servers :
          ProbeStepOf(s) => ~ SnapToInitial(s) /\ ~ SnapToThreshold(s)]_vars

\* C17, amended: the snap branches are executed, and only inside the damping
\* zone.  A pass snaps failed_checks to 0 exactly when it ends a run of
\* fewer than successThreshold failures of a Healthy endpoint, the counter
\* being the length of that run; a failure snaps it to successThreshold
\* exactly when it ends a run of fewer than successThreshold passes of an
\* Unhealthy endpoint, the counter being successThreshold less that run.
C17_SnapOnlyInDampingZone ==
    [][\A s \in Servers :
          ProbeStepOf(s) =>
            /\ SnapToInitial(s) =>
                  /\ turn_data[s].failed_checks \in 1..(SuccessTh - 1)
                  /\ failRun[s] = turn_data[s].failed_checks
                  /\ turn_data'[s].failed_checks = Initial
            /\ SnapToThreshold(s) =>
                  /\ turn_data[s].failed_checks \in 1..(SuccessTh - 1)
                  /\ passRun[s] = SuccessTh - turn_data[s].failed_checks
                  /\ turn_data'[s].failed_checks = SuccessTh
            /\ (/\ ProbePassed(s) /\ turn_data[s].healthy = "True"
                /\ failRun[s] > 0)
                  => SnapToInitial(s)
            /\ (/\ ~ ProbePassed(s) /\ turn_data[s].healthy = "False"
                /\ passRun[s] > 0)
                  => SnapToThreshold(s)]_vars

\* A Healthy endpoint has failed successThreshold - 1 probes in a row and
\* then passed one: the update has just snapped its failed_checks to 0.
C17_Witness ==
    /\ hc_pc = "status"
    /\ turn_data[hc_server].healthy = "True"
    /\ turn_data[hc_server].failed_checks = Initial
    /\ passRun[hc_server] = 1
    /\ \E u \in Servers :
          /\ turn_data[u].healthy = "True"
          /\ turn_data[u].failed_checks = SuccessTh - 1
          /\ failRun[u] = SuccessTh - 1

\* C18: when the HealthCheck thread stores turn_server, turn_server is set,
\* at least one but not every endpoint is Unhealthy, and the endpoint that is
\* active at the store is not Healthy.
C18_FastPathOnlyWhenDegraded ==
    [][(hc_pc = "fallback" /\ hc_pc' # hc_pc) =>
          /\ turn_server # NoServer
          /\ Cardinality(UnhealthyServers(turn_data)) \in 1..(NumServers - 1)
          /\ turn_server \notin HealthyServers(turn_data)]_vars

\* C19: with both threads scheduled fairly and every probe and query
\* resolving, turn_server is eventually set, in random and in metric mode.
C19_EventuallySelected == <>(turn_server # NoServer)

\* C20: turn_server is unset or an endpoint of the registry; once it is set,
\* no step unsets it or stores anything but an endpoint of the registry, and
\* the health the status API reports never goes from "healthy" back to
\* "unhealthy".
C20_NeverUnset ==
    [][/\ turn_server \in Servers \cup {NoServer}
       /\ turn_server' \in Servers \cup {NoServer}
       /\ turn_server # NoServer => turn_server' \in Servers
       /\ GetApiHealth = "healthy" => GetApiHealth' = "healthy"]_vars

\* The active endpoint has been replaced by the fast path after a selection
\* from a metrics response, every endpoint but one is Unhealthy, and the
\* status API reports "healthy".
C20_Witness ==
    /\ fast_path = "changed"
    /\ algorithm = "metric"
    /\ GetApiHealth = "healthy"
    /\ Cardinality(UnhealthyServers(turn_data)) = NumServers - 1
    /\ turn_server \in HealthyServers(turn_data)

=============================================================================
